---- MODULE Spec2Model ----
(***************************************************************************)
(* A model of scripts/generate_feeds.py: the pure text/URL helpers, the    *)
(* pattern filter, the two extractors, dedupe_and_rank and main's loop.    *)
(*                                                                         *)
(* A Python str is a sequence of one-character strings, so that len(),     *)
(* strip(), title(), startswith() and re.search() are computed and not     *)
(* assumed.  An optional value is None == <<>> or Some(v) == <<v>>.        *)
(***************************************************************************)
EXTENDS Integers, Sequences, FiniteSets, TLC

None == <<>>
Some(v) == <<v>>

\* ------------------------------------------------------------------ str

WhitespaceChars == {" ", "\t", "\n"}

LowerLetters ==
  <<"a","b","c","d","e","f","g","h","i","j","k","l","m",
    "n","o","p","q","r","s","t","u","v","w","x","y","z">>

UpperLetters ==
  <<"A","B","C","D","E","F","G","H","I","J","K","L","M",
    "N","O","P","Q","R","S","T","U","V","W","X","Y","Z">>

DigitChars == {"0","1","2","3","4","5","6","7","8","9"}

IsLower(c) == \E i \in 1..26 : LowerLetters[i] = c
IsUpper(c) == \E i \in 1..26 : UpperLetters[i] = c
IsCased(c) == IsLower(c) \/ IsUpper(c)

UpperChar(c) ==
  IF IsLower(c) THEN UpperLetters[CHOOSE i \in 1..26 : LowerLetters[i] = c] ELSE c

LowerChar(c) ==
  IF IsUpper(c) THEN LowerLetters[CHOOSE i \in 1..26 : UpperLetters[i] = c] ELSE c

\* s[i:] and s[:i] of Python, 1-based here
Drop(s, n) == IF n >= Len(s) THEN <<>> ELSE SubSeq(s, n + 1, Len(s))
Take(s, n) == IF n <= 0 THEN <<>> ELSE SubSeq(s, 1, IF n < Len(s) THEN n ELSE Len(s))

StartsWith(s, p) == Len(p) <= Len(s) /\ SubSeq(s, 1, Len(p)) = p

\* the substring test behind re.search for a literal pattern
Contains(s, p) ==
  \E i \in 0..(Len(s) - Len(p)) : SubSeq(s, i + 1, i + Len(p)) = p

\* the index of the first character of s that is in cs, 0 when there is none
FindFirst(s, cs) ==
  IF \E i \in 1..Len(s) : s[i] \in cs
  THEN CHOOSE i \in 1..Len(s) : s[i] \in cs /\ \A j \in 1..(i - 1) : s[j] \notin cs
  ELSE 0

\* the index of the last character of s that is in cs, 0 when there is none
FindLast(s, cs) ==
  IF \E i \in 1..Len(s) : s[i] \in cs
  THEN CHOOSE i \in 1..Len(s) : s[i] \in cs /\ \A j \in (i + 1)..Len(s) : s[j] \notin cs
  ELSE 0

\* str.rstrip(chars)
RStrip(s, cs) ==
  LET keep == {i \in 1..Len(s) : s[i] \notin cs}
  IN IF keep = {} THEN <<>>
     ELSE SubSeq(s, 1, CHOOSE i \in keep : \A j \in keep : j <= i)

\* str.lstrip(chars)
LStrip(s, cs) ==
  LET k == FindFirst(s, {s[i] : i \in 1..Len(s)} \ cs)
  IN IF k = 0 THEN <<>> ELSE SubSeq(s, k, Len(s))

\* str.strip()
Strip(s) == LStrip(RStrip(s, WhitespaceChars), WhitespaceChars)

\* str.title(): a cased character is upper-cased after an uncased one and
\* lower-cased after a cased one
TitleCase(s) ==
  [i \in 1..Len(s) |->
     IF ~IsCased(s[i]) THEN s[i]
     ELSE IF i = 1 \/ ~IsCased(s[i - 1]) THEN UpperChar(s[i]) ELSE LowerChar(s[i])]

\* re.sub(r"<cs>+", <rep>, s): every maximal run of characters of cs becomes rep
RECURSIVE SubRuns(_, _, _)
SubRuns(s, cs, rep) ==
  IF s = <<>> THEN <<>>
  ELSE IF s[1] \in cs
       THEN rep \o SubRuns(LStrip(s, cs), cs, rep)
       ELSE <<s[1]>> \o SubRuns(Tail(s), cs, rep)

\* str.lower()
LowerStr(s) == [i \in 1..Len(s) |-> LowerChar(s[i])]

\* "/".join-free path handling: the part of s after its last "/" (s.split("/")[-1])
LastSegment(s) == Drop(s, FindLast(s, {"/"}))

\* ------------------------------------------------------------ urllib.parse

HTTP == <<"h","t","t","p">>
HTTPS == <<"h","t","t","p","s">>
FTP == <<"f","t","p">>

SchemeChars ==
  {LowerLetters[i] : i \in 1..26} \cup {UpperLetters[i] : i \in 1..26}
    \cup DigitChars \cup {"+", "-", "."}

\* the schemes of urllib's uses_relative and uses_netloc that the model's
\* inputs can carry ("" is in uses_relative and uses_netloc too)
UsesRelative == {<<>>, HTTP, HTTPS, FTP}
UsesNetloc == {<<>>, HTTP, HTTPS, FTP}

\* urlparse(u) splits u in steps, each on what the step before left:
\* the scheme (up to the first ":", when what precedes it is a scheme name) ...
SchemeEnd(u, i) ==
  IF i > 1 /\ IsCased(u[1]) /\ \A j \in 1..(i - 1) : u[j] \in SchemeChars THEN i ELSE 0

\* ... the query (after the first "?" of what is left) and the path
SplitQuery(scheme, netloc, rest, fragment, q) ==
  [scheme |-> scheme,
   netloc |-> netloc,
   path |-> IF q = 0 THEN rest ELSE Take(rest, q - 1),
   query |-> IF q = 0 THEN <<>> ELSE Drop(rest, q),
   fragment |-> fragment]

\* ... the fragment (after the first "#")
SplitFragment(scheme, netloc, rest, f) ==
  SplitQuery(scheme, netloc,
             IF f = 0 THEN rest ELSE Take(rest, f - 1),
             IF f = 0 THEN <<>> ELSE Drop(rest, f),
             FindFirst(IF f = 0 THEN rest ELSE Take(rest, f - 1), {"?"}))

\* ... the netloc (after "//", up to the first "/", "?" or "#")
SplitNetloc(scheme, rest, k) ==
  SplitFragment(scheme,
                IF k = 0 THEN rest ELSE Take(rest, k - 1),
                IF k = 0 THEN <<>> ELSE Drop(rest, k - 1),
                FindFirst(IF k = 0 THEN <<>> ELSE Drop(rest, k - 1), {"#"}))

SplitAfterScheme(scheme, rest) ==
  IF StartsWith(rest, <<"/", "/">>)
  THEN SplitNetloc(scheme, Drop(rest, 2), FindFirst(Drop(rest, 2), {"/", "?", "#"}))
  ELSE SplitFragment(scheme, <<>>, rest, FindFirst(rest, {"#"}))

SplitScheme(u, i) ==
  SplitAfterScheme(IF i > 0 THEN LowerStr(Take(u, i - 1)) ELSE <<>>,
                   IF i > 0 THEN Drop(u, i) ELSE u)

\* urlparse(u): scheme, netloc, path, query, fragment (params are not modelled:
\* no input holds a ";")
urlparse(u) == SplitScheme(u, SchemeEnd(u, FindFirst(u, {":"})))

\* s with prefix before it when s is not empty
Prefixed(prefix, s) == IF s # <<>> THEN prefix \o s ELSE <<>>

\* urlunparse(parts)
urlunparse(p) ==
  (IF p.scheme # <<>> THEN p.scheme \o <<":">> ELSE <<>>)
    \o (IF p.netloc # <<>> \/ (p.scheme # <<>> /\ p.scheme \in UsesNetloc
                                /\ ~StartsWith(p.path, <<"/", "/">>))
        THEN <<"/", "/">> \o p.netloc
               \o (IF p.path # <<>> /\ p.path[1] # "/" THEN <<"/">> ELSE <<>>)
        ELSE <<>>)
    \o p.path
    \o Prefixed(<<"?">>, p.query)
    \o Prefixed(<<"#">>, p.fragment)

\* bpath up to and with its last "/" ("/" when it has none)
BaseDir(bpath) ==
  IF FindLast(bpath, {"/"}) = 0 THEN <<"/">> ELSE Take(bpath, FindLast(bpath, {"/"}))

\* the parts urljoin puts together when url keeps the base's scheme and has
\* no netloc of its own
JoinedParts(b, u) ==
  IF u.path = <<>>
  THEN [u EXCEPT !.netloc = b.netloc, !.path = b.path,
                 !.query = IF u.query = <<>> THEN b.query ELSE u.query]
  ELSE IF u.path[1] = "/"
  THEN [u EXCEPT !.netloc = b.netloc]
  ELSE [u EXCEPT !.netloc = b.netloc, !.path = BaseDir(b.path) \o u.path]

\* urljoin on the parsed base b and the parsed url u (its scheme defaulted to
\* the base's)
JoinParsed(url, b, u) ==
  IF u.scheme # b.scheme \/ u.scheme \notin UsesRelative THEN url
  ELSE urlunparse(IF u.scheme \in UsesNetloc /\ u.netloc # <<>> THEN u
                  ELSE JoinedParts(b, u))

\* urlparse(url, bscheme): the scheme is bscheme when url has none
WithDefaultScheme(u, bscheme) ==
  IF u.scheme = <<>> THEN [u EXCEPT !.scheme = bscheme] ELSE u

JoinWithBase(url, b) == JoinParsed(url, b, WithDefaultScheme(urlparse(url), b.scheme))

\* urljoin(base, url).  Dot segments ("." and "..") are not modelled: no input
\* holds one.
urljoin(base, url) ==
  IF base = <<>> THEN url
  ELSE IF url = <<>> THEN base
  ELSE JoinWithBase(url, urlparse(base))

\* ------------------------------------------------------------ re (literals)

\* re.search(pattern, s) for the patterns of the model's configurations: a
\* literal with no metacharacter, optionally anchored by a leading "^"
re_search(pattern, s) ==
  IF pattern # <<>> /\ pattern[1] = "^"
  THEN StartsWith(s, Tail(pattern))
  ELSE Contains(s, pattern)

\* --------------------------------------------------- text/URL normalizer

MAILTO == <<"m","a","i","l","t","o",":">>
JAVASCRIPT == <<"j","a","v","a","s","c","r","i","p","t",":">>

\* the scheme and netloc checks of normalize_link on the joined URL
CheckedUrl(full_url, parsed) ==
  IF parsed.scheme \notin {HTTP, HTTPS} THEN None
  ELSE IF parsed.netloc = <<>> THEN None
  ELSE Some(full_url)

CheckedJoin(full_url) == CheckedUrl(full_url, urlparse(full_url))

\* normalize_link after href = href.strip()
NormalizeStripped(h, base_url) ==
  IF StartsWith(h, <<"#">>) \/ StartsWith(h, MAILTO) \/ StartsWith(h, JAVASCRIPT)
  THEN None
  ELSE CheckedJoin(urljoin(base_url, h))

\* normalize_link(href, base_url): Some(full_url) or None
normalize_link(href, base_url) ==
  IF href = <<>> THEN None ELSE NormalizeStripped(Strip(href), base_url)

\* a or b, for two str
OrStr(a, b) == IF a # <<>> THEN a ELSE b

NormOfParsed(parsed) ==
  parsed.scheme \o <<":", "/", "/">> \o parsed.netloc
    \o OrStr(RStrip(parsed.path, {"/"}), <<"/">>)

\* the inner norm(u) of same_url
norm(u) == NormOfParsed(urlparse(u))

same_url(a, b) == norm(a) = norm(b)

matches_patterns(url, include_patterns, exclude_patterns) ==
  IF include_patterns # <<>>
       /\ ~\E i \in 1..Len(include_patterns) : re_search(include_patterns[i], url)
  THEN FALSE
  ELSE IF exclude_patterns # <<>>
            /\ \E i \in 1..Len(exclude_patterns) : re_search(exclude_patterns[i], url)
  THEN FALSE
  ELSE TRUE

slug_to_title(link) ==
  OrStr(TitleCase(Strip(SubRuns(LastSegment(RStrip(urlparse(link).path, {"/"})),
                                {"-", "_"}, <<" ">>))),
        link)

\* s or None, for a str
OrNone(s) == IF s # <<>> THEN Some(s) ELSE None

\* re.sub(r"\s+", " ", value).strip() or None, for a str
CleanStr(s) == OrNone(Strip(SubRuns(s, WhitespaceChars, <<" ">>)))

should_keep_link_patterns_only(link, source) ==
  matches_patterns(link, source.include_url_patterns, source.exclude_url_patterns)

should_keep_link(link, source) ==
  IF same_url(link, source.url) THEN FALSE
  ELSE matches_patterns(link, source.include_url_patterns, source.exclude_url_patterns)

\* ---------------------------------------------------------------- FeedItem

\* @dataclass FeedItem: title is a str, summary an optional str, published an
\* optional timestamp (the UTC datetime, as its integer timestamp())
FeedItem(title, link, summary, published) ==
  [title |-> title, link |-> link, summary |-> summary, published |-> published]

\* Python truth of an optional str (None and "" are false) and of an optional
\* datetime (only None is false)
TruthyOptStr(o) == o # None /\ o[1] # <<>>
TruthyOptDate(o) == o # None

\* ------------------------------------------------------ merge/rank engine

MergedGetLastOnly(merged, link) ==
  IF merged # <<>> /\ merged[Len(merged)].link = link THEN Len(merged) ELSE 0

\* merged.get(link): the position in the dict (kept in insertion order) of the
\* entry whose key is link, 0 when there is none
MergedGet(merged, link) ==
  IF \E k \in 1..Len(merged) : merged[k].link = link
  THEN CHOOSE k \in 1..Len(merged) : merged[k].link = link
  ELSE 0

MergeSummaryOverwrites(heap, e, ref) ==
  IF TruthyOptStr(heap[ref].summary)
  THEN [heap EXCEPT ![e].summary = heap[ref].summary] ELSE heap

\* if not existing.summary and item.summary: existing.summary = item.summary
MergeSummary(heap, e, ref) ==
  IF ~TruthyOptStr(heap[e].summary) /\ TruthyOptStr(heap[ref].summary)
  THEN [heap EXCEPT ![e].summary = heap[ref].summary] ELSE heap

\* if not existing.published and item.published: existing.published = ...
MergePublished(heap, e, ref) ==
  IF ~TruthyOptDate(heap[e].published) /\ TruthyOptDate(heap[ref].published)
  THEN [heap EXCEPT ![e].published = heap[ref].published] ELSE heap

\* if existing.title == slug_to_title(existing.link) and item.title: ...
MergeTitle(heap, e, ref) ==
  IF heap[e].title = slug_to_title(heap[e].link) /\ heap[ref].title # <<>>
  THEN [heap EXCEPT ![e].title = heap[ref].title] ELSE heap

\* the three conditional assignments of the loop body, in order, on the objects
\* existing (at e) and item (at ref), which may be the same object
MergeIntoExisting(heap, e, ref) ==
  MergeTitle(MergePublished(MergeSummary(heap, e, ref), e, ref), e, ref)

\* one iteration of `for index, item in enumerate(items)`: st is the objects
\* (heap) and the dict (merged: link, the object's address, its index)
MergeIteration(st, ref, index) ==
  LET k == MergedGet(st.merged, st.heap[ref].link)
  IN IF k = 0
     THEN [st EXCEPT !.merged = Append(@, [link |-> st.heap[ref].link,
                                           ref |-> ref, index |-> index])]
     ELSE [st EXCEPT !.heap = MergeIntoExisting(@, st.merged[k].ref, ref)]

\* the whole loop over items[from..], items being a list of object addresses
RECURSIVE MergeLoop(_, _, _)
MergeLoop(st, items, from) ==
  IF from > Len(items) THEN st
  ELSE MergeLoop(MergeIteration(st, items[from], from - 1), items, from + 1)

\* a key whose last component runs against the discovery order
SortKeyNoIndex(heap, pair) ==
  LET published == heap[pair.ref].published
  IN <<IF TruthyOptDate(published) THEN 0 ELSE 1,
       -(IF TruthyOptDate(published) THEN published[1] ELSE 0),
       -pair.index>>

\* a key that orders dated pairs oldest first
SortKeyAscending(heap, pair) ==
  LET published == heap[pair.ref].published
  IN <<IF TruthyOptDate(published) THEN 0 ELSE 1,
       IF TruthyOptDate(published) THEN published[1] ELSE 0,
       pair.index>>

\* the sort key of a pair: (0 if published else 1, -timestamp or 0, index)
SortKey(heap, pair) ==
  LET published == heap[pair.ref].published
  IN <<IF TruthyOptDate(published) THEN 0 ELSE 1,
       -(IF TruthyOptDate(published) THEN published[1] ELSE 0),
       pair.index>>

\* Python's comparison of two 3-tuples of numbers: a < b
TupleLess(a, b) ==
  \/ a[1] < b[1]
  \/ a[1] = b[1] /\ a[2] < b[2]
  \/ a[1] = b[1] /\ a[2] = b[2] /\ a[3] < b[3]

\* list.sort(key=...): stable, so each pair goes after the pairs already placed
\* whose key is not greater
RECURSIVE SortPairs(_, _)
SortPairs(heap, pairs) ==
  IF pairs = <<>> THEN <<>>
  ELSE LET n == Len(pairs)
           sorted == SortPairs(heap, SubSeq(pairs, 1, n - 1))
           x == pairs[n]
           before == {k \in 1..Len(sorted) :
                        ~TupleLess(SortKey(heap, x), SortKey(heap, sorted[k]))}
           at == IF before = {} THEN 0 ELSE CHOOSE k \in before : \A j \in before : j <= k
       IN Take(sorted, at) \o <<x>> \o Drop(sorted, at)

\* s[:n] of Python: a negative n counts from the end
SliceTo(s, n) == IF n >= 0 THEN Take(s, n) ELSE Take(s, Len(s) + n)

\* [item for item, _ in pairs]
ItemsOf(heap, pairs) == [k \in 1..Len(pairs) |-> heap[pairs[k].ref]]

\* result = list(merged.values()); result.sort(key=...), with the objects
SortedOf(st) == [heap |-> st.heap, pairs |-> SortPairs(st.heap, st.merged)]

\* the loop and the sort of dedupe_and_rank on the objects heap, items being
\* the list of their addresses: the objects as the call leaves them and the
\* sorted list of pairs
MergedSorted(heap, items) ==
  SortedOf(MergeLoop([heap |-> heap, merged |-> <<>>], items, 1))

\* return [item for item, _ in result[:max_items]]
Returned(ms, max_items) == ItemsOf(ms.heap, SliceTo(ms.pairs, max_items))

\* dedupe_and_rank(items, max_items), items being a list of object addresses
dedupe_and_rank_refs(heap, items, max_items) ==
  Returned(MergedSorted(heap, items), max_items)

\* dedupe_and_rank on a list of distinct objects
dedupe_and_rank(items, max_items) ==
  dedupe_and_rank_refs(items, [k \in 1..Len(items) |-> k], max_items)

\* ------------------------------------------------------------ JSON values

\* what json.loads returns, as a tagged value: None, a bool, a number, a str,
\* a list, or a dict (its key/value pairs in document order)
JNull == [t |-> "null"]
JBool(b) == [t |-> "bool", v |-> b]
JNum(n) == [t |-> "num", v |-> n]
JStr(s) == [t |-> "str", v |-> s]
JList(xs) == [t |-> "list", v |-> xs]
JDict(pairs) == [t |-> "dict", v |-> pairs]

\* Python truth of such a value
Truthy(x) ==
  CASE x.t = "null" -> FALSE
    [] x.t = "bool" -> x.v
    [] x.t = "num" -> x.v # 0
    [] OTHER -> x.v # <<>>

\* a or b
Or(a, b) == IF Truthy(a) THEN a ELSE b

\* node.get(key): the value of the key (the last one, were it repeated), None
\* when the dict has no such key
Get(node, key) ==
  LET hits == {k \in 1..Len(node.v) : node.v[k][1] = key}
  IN IF hits = {} THEN JNull
     ELSE node.v[CHOOSE k \in hits : \A j \in hits : j <= k][2]

\* the outcome of a call that may raise: the exception, or the value
Raise == [raised |-> TRUE]
Value(v) == [raised |-> FALSE, value |-> v]

\* ---------------------------------------------------------------- dates

DATE_ISO_Z == <<"2","0","2","4","-","0","1","-","0","5","T","1","0",":","0","0",":","0","0","Z">>
DATE_PLAIN == <<"2","0","2","4","-","0","2","-","0","1">>
DATE_WORD == <<"s","o","o","n">>

\* normalize_datetime(date_parser.parse(value)) for the date strings of the
\* model's pages: the UTC timestamp (a date with no timezone is taken as UTC),
\* and None where dateutil raises.  1704448800 is 2024-01-05T10:00:00Z and
\* 1706745600 is 2024-02-01T00:00:00Z.
ParseDateString(value) ==
  CASE value = DATE_ISO_Z -> Some(1704448800)
    [] value = DATE_PLAIN -> Some(1706745600)
    [] OTHER -> None

\* parse_date(value), value being what a JSON field or an HTML attribute holds
parse_date(value) ==
  IF ~Truthy(value) THEN None
  ELSE IF value.t = "str"
       THEN IF Strip(value.v) = <<>> THEN None ELSE ParseDateString(Strip(value.v))
       ELSE None

\* ------------------------------------------------------------- clean_text

\* clean_text(value): None for None; re.sub raises TypeError for a value that
\* is not a str
clean_text(value) ==
  IF value.t = "null" THEN Value(None)
  ELSE IF value.t # "str" THEN Raise
  ELSE Value(CleanStr(value.v))

\* ------------------------------------------------ structured-data extractor

ARTICLE_TYPES == {<<"A","r","t","i","c","l","e">>, <<"B","l","o","g","P","o","s","t","i","n","g">>, <<"N","e","w","s","A","r","t","i","c","l","e">>, <<"T","e","c","h","A","r","t","i","c","l","e">>}

\* str(entry) of an entry of an @type list: for an entry that is not a str,
\* a text that names no article type
StrOf(entry) == IF entry.t = "str" THEN entry.v ELSE <<"<", entry.t, ">">>

node_types(node) ==
  LET type_value == Get(node, "@type")
  IN IF type_value.t = "str" THEN {type_value.v}
     ELSE IF type_value.t = "list"
          THEN {StrOf(type_value.v[k]) : k \in 1..Len(type_value.v)}
          ELSE {}

\* node_url(node): a JSON str, or None
node_url(node) ==
  LET value == Get(node, "url")
      entity == Get(node, "mainEntityOfPage")
  IN IF value.t = "str" THEN value
     ELSE IF value.t = "dict" /\ Get(value, "@id").t = "str" THEN Get(value, "@id")
     ELSE IF entity.t = "str" THEN entity
     ELSE IF entity.t = "dict" /\ Get(entity, "@id").t = "str" THEN Get(entity, "@id")
     ELSE JNull

\* items.append(FeedItem(...)), unless clean_text raised for the title or
\* the summary
AppendArticle(items, link, title, summary, published) ==
  IF title.raised \/ summary.raised THEN Raise
  ELSE Value(Append(items,
                    FeedItem(IF title.value # None THEN title.value[1]
                             ELSE slug_to_title(link),
                             link, summary.value, published)))

\* `if link and should_keep_link(link, source):` and its body
VisitLinked(node, source, items, link) ==
  IF link = None \/ ~should_keep_link(link[1], source) THEN Value(items)
  ELSE AppendArticle(items, link[1],
                     clean_text(Or(Get(node, "headline"), Get(node, "name"))),
                     clean_text(Get(node, "description")),
                     parse_date(Or(Or(Get(node, "datePublished"),
                                      Get(node, "dateCreated")),
                                   Get(node, "dateModified"))))

\* the body of `if types.intersection(ARTICLE_TYPES):` in walk: the items with
\* the node's item appended, or the exception clean_text raised
VisitArticle(node, source, items) ==
  VisitLinked(node, source, items,
              normalize_link(Or(node_url(node), JStr(<<>>)).v, source.url))

\* walk(node), threading the items list: acc is Value(items) or Raise, and an
\* exception ends the traversal
RECURSIVE walk(_, _, _), WalkEach(_, _, _)
walk(node, source, acc) ==
  IF acc.raised THEN acc
  ELSE IF node.t = "list" THEN WalkEach(node.v, source, acc)
  ELSE IF node.t # "dict" THEN acc
  ELSE LET visited == IF node_types(node) \cap ARTICLE_TYPES # {}
                      THEN VisitArticle(node, source, acc.value)
                      ELSE acc
       IN WalkEach([k \in 1..Len(node.v) |-> node.v[k][2]], source, visited)

\* for child in children: walk(child)
WalkEach(children, source, acc) ==
  IF children = <<>> THEN acc
  ELSE WalkEach(Tail(children), source, walk(children[1], source, acc))

\* json.loads(raw_text): the text of a script element is blank, not JSON, or
\* the JSON text of a payload
json_loads(text) == IF text.kind = "json" THEN Value(text.payload) ELSE Raise

\* soup.select("script[type='application/ld+json']"), in document order
RECURSIVE SelectTag(_, _)
SelectTag(page, tag) ==
  IF page = <<>> THEN <<>>
  ELSE (IF page[1].tag = tag THEN <<page[1]>> ELSE <<>>) \o SelectTag(Tail(page), tag)

\* the `for script in ...` loop of extract_items_from_json_ld over scripts
RECURSIVE JsonLdLoop(_, _, _)
JsonLdLoop(scripts, source, acc) ==
  IF scripts = <<>> \/ acc.raised THEN acc
  ELSE LET payload == json_loads(scripts[1].text)
       IN JsonLdLoop(Tail(scripts), source,
                     IF scripts[1].text.kind = "blank" THEN acc
                     ELSE IF payload.raised THEN acc
                     ELSE walk(payload.value, source, acc))

\* extract_items_from_json_ld(soup, source): Value(items), or Raise
extract_items_from_json_ld(page, source) ==
  JsonLdLoop(SelectTag(page, "script"), source, Value(<<>>))

\* --------------------------------------------------------- anchor extractor

\* the scopes parse_nearby_date searches: the anchor and up to 3 ancestors
MaxAncestorSteps == 3

\* parse_nearby_date(anchor): anchor.times[k] is node.find("time") of the k-th
\* node of the chain anchor, parent, grandparent, ... (None where it has none)
RECURSIVE NearbyDateFrom(_, _)
NearbyDateFrom(times, k) ==
  IF k > Len(times) \/ k > 1 + MaxAncestorSteps THEN None
  ELSE LET time_node == times[k]
           parsed == IF time_node = None THEN None
                     ELSE parse_date(Or(time_node[1].datetime, JStr(time_node[1].text)))
       IN IF parsed # None THEN parsed ELSE NearbyDateFrom(times, k + 1)

parse_nearby_date(anchor) == NearbyDateFrom(anchor.times, 1)

\* container.select("a[href]") for the containers of one selector
RECURSIVE AnchorsWithin(_, _)
AnchorsWithin(anchors, selector) ==
  IF anchors = <<>> THEN <<>>
  ELSE (IF selector \in anchors[1].within THEN <<anchors[1]>> ELSE <<>>)
         \o AnchorsWithin(Tail(anchors), selector)

RECURSIVE AnchorsOfSelectors(_, _)
AnchorsOfSelectors(anchors, selectors) ==
  IF selectors = <<>> THEN <<>>
  ELSE AnchorsWithin(anchors, selectors[1]) \o AnchorsOfSelectors(anchors, Tail(selectors))

select_link_anchors(page, source) ==
  IF source.link_scope_selectors = <<>> THEN SelectTag(page, "a")
  ELSE AnchorsOfSelectors(SelectTag(page, "a"), source.link_scope_selectors)

\* titles shorter than this are replaced by the slug title
MinTitleLen == 8

\* summary = container_text if it is not None and differs from the title
SummaryOf(container_text, title) ==
  IF container_text # None /\ container_text[1] # title THEN container_text ELSE None

ItemWithTitle(anchor, link, title) ==
  FeedItem(title, link,
           SummaryOf(clean_text(JStr(anchor.parent_text)).value, title),
           parse_nearby_date(anchor))

\* title = clean_text(...); if not title or len(title) < 8: slug_to_title(link)
TitleOf(text, link) ==
  IF text = None \/ Len(text[1]) < MinTitleLen THEN slug_to_title(link) ELSE text[1]

\* the item of one anchor that passed the filter
AnchorItem(anchor, link) ==
  ItemWithTitle(anchor, link, TitleOf(clean_text(JStr(anchor.text)).value, link))

\* one iteration of the loop of extract_items_from_links: the items it appends
LinkItems(anchor, source, link) ==
  IF link = None \/ ~should_keep_link(link[1], source) THEN <<>>
  ELSE <<AnchorItem(anchor, link[1])>>

RECURSIVE LinksLoop(_, _)
LinksLoop(anchors, source) ==
  IF anchors = <<>> THEN <<>>
  ELSE LinkItems(anchors[1], source, normalize_link(anchors[1].href, source.url))
         \o LinksLoop(Tail(anchors), source)

extract_items_from_links(page, source) ==
  LinksLoop(select_link_anchors(page, source), source)

\* ---------------------------------------------------------------- bounds

\* the longest candidate list given to dedupe_and_rank
MaxCand == 3

\* the most sources a configuration file holds
MaxSources == 2

\* the most script and anchor elements a page holds
MaxPage == 3

\* ---------------------------------------------------------------- state

VARIABLES
  \* main(): its position, the command line, the configuration file, the
  \* selected sources, the loop's position in them, the error count, what
  \* process_source was called on and how it ended, and the return value
  mpc, args, config, sources, pos, errors, attempts, exit_code,
  \* dedupe_and_rank(): its position, the candidate list as passed in, the
  \* FeedItem objects (mutated in place), max_items, the loop index, the dict
  \* merged, and the returned list
  dpc, input, heap, max_items, index, merged, result,
  \* process_source(): its position, the source's configuration, the parsed
  \* page (its script and anchor elements in document order), the extracted
  \* candidates, and the ranked items
  ppc, source, page, extracted, feed

mainVars == <<mpc, args, config, sources, pos, errors, attempts, exit_code>>
mergeVars == <<dpc, input, heap, max_items, index, merged, result>>
pageVars == <<ppc, source, page, extracted, feed>>
vars == <<mainVars, mergeVars, pageVars>>

MainIdle ==
  /\ mpc = "idle" /\ args = None /\ config = None /\ sources = <<>>
  /\ pos = 0 /\ errors = 0 /\ attempts = <<>> /\ exit_code = None

MergeIdle ==
  /\ dpc = "idle" /\ input = <<>> /\ heap = <<>> /\ max_items = None
  /\ index = 0 /\ merged = <<>> /\ result = None

PageIdle ==
  /\ ppc = "idle" /\ source = None /\ page = <<>> /\ extracted = <<>> /\ feed = None

\* all sequences over S of length at most n
SeqsUpTo(S, n) == UNION {[1..k -> S] : k \in 0..n}

\* ------------------------------------------------------- dedupe_and_rank

SITE == <<"h","t","t","p","s",":","/","/","e",".","c">>
LinkA == SITE \o <<"/","a">>
LinkBC == SITE \o <<"/","b","-","c">>
LinkRoot == SITE \o <<"/">>

TitleAlpha == <<"A","l","p","h","a">>
TitleBeta == <<"B","e","t","a">>
SummaryS == <<"s">>
SummaryT == <<"t">>

\* The candidates dedupe_and_rank is tried on.  Links and dates vary together
\* (ranking); titles (a placeholder, the empty title, a real title) and
\* summaries (None, "", two texts) vary on one link (field merging).
CandidateItems ==
  {FeedItem(TitleAlpha, l, None, p) :
     l \in {LinkA, LinkBC}, p \in {None, Some(0), Some(1)}}
  \cup {FeedItem(TitleAlpha, LinkRoot, None, None)}
  \cup {FeedItem(t, LinkA, None, None) : t \in {slug_to_title(LinkA), <<>>, TitleBeta}}
  \cup {FeedItem(TitleAlpha, LinkA, Some(s), None) : s \in {<<>>, SummaryS, SummaryT}}

\* the values of max_items: int() accepts any integer
MaxItemsValues == (-MaxCand)..(MaxCand + 1)

InitMerge ==
  /\ MainIdle /\ PageIdle
  /\ dpc = "loop"
  /\ input \in SeqsUpTo(CandidateItems, MaxCand)
  /\ heap = input
  /\ max_items = None
  /\ index = 0
  /\ merged = <<>>
  /\ result = None

\* a loop iteration whose item.link is not yet a key of merged
MergeFirst ==
  /\ dpc = "loop" /\ index < Len(heap)
  /\ MergedGet(merged, heap[index + 1].link) = 0
  /\ merged' = MergeIteration([heap |-> heap, merged |-> merged], index + 1, index).merged
  /\ index' = index + 1
  /\ UNCHANGED <<dpc, input, heap, max_items, result, mainVars, pageVars>>

\* a loop iteration whose item.link is already a key of merged
MergeDuplicate ==
  /\ dpc = "loop" /\ index < Len(heap)
  /\ MergedGet(merged, heap[index + 1].link) # 0
  /\ heap' = MergeIteration([heap |-> heap, merged |-> merged], index + 1, index).heap
  /\ index' = index + 1
  /\ UNCHANGED <<dpc, input, merged, max_items, result, mainVars, pageVars>>

\* result = list(merged.values()); result.sort(key=...)
SortResult ==
  /\ dpc = "loop" /\ index = Len(heap)
  /\ result' = Some(SortPairs(heap, merged))
  /\ dpc' = "sorted"
  /\ UNCHANGED <<input, heap, max_items, index, merged, mainVars, pageVars>>

\* return [item for item, _ in result[:max_items]]; max_items is read only
\* here, so its value is drawn here
Truncate ==
  /\ dpc = "sorted"
  /\ \E m \in MaxItemsValues :
       /\ max_items' = Some(m)
       /\ result' = Some(Returned([heap |-> heap, pairs |-> result[1]], m))
  /\ dpc' = "done"
  /\ UNCHANGED <<input, heap, index, merged, mainVars, pageVars>>

NextMerge == MergeFirst \/ MergeDuplicate \/ SortResult \/ Truncate

SpecMerge == InitMerge /\ [][NextMerge]_vars

\* ------------------------------------------------------------------ main

SourceIds == {"a", "b"}

Init ==
  /\ MergeIdle /\ PageIdle
  /\ mpc = "start"
  /\ args \in [source_id : {None, Some("a"), Some("zz")},
               html_file : {"none", "exists", "missing"}]
  /\ config \in {[state |-> "missing"], [state |-> "invalid"]}
                  \cup {[state |-> "ok", rows |-> r] : r \in SeqsUpTo(SourceIds, MaxSources)}
  /\ sources = <<>>
  /\ pos = 0
  /\ errors = 0
  /\ attempts = <<>>
  /\ exit_code = None

\* [source for source in sources if source.source_id == args.source_id]
RECURSIVE SelectSourceId(_, _)
SelectSourceId(rows, id) ==
  IF rows = <<>> THEN <<>>
  ELSE (IF rows[1] = id THEN <<rows[1]>> ELSE <<>>) \o SelectSourceId(Tail(rows), id)

\* if not config_path.exists(): return 1
ConfigNotFound ==
  /\ mpc = "start" /\ config.state = "missing"
  /\ mpc' = "config_error" /\ exit_code' = Some(1)
  /\ UNCHANGED <<args, config, sources, pos, errors, attempts, mergeVars, pageVars>>

\* load_sources raises: return 1
LoadFails ==
  /\ mpc = "start" /\ config.state = "invalid"
  /\ mpc' = "config_error" /\ exit_code' = Some(1)
  /\ UNCHANGED <<args, config, sources, pos, errors, attempts, mergeVars, pageVars>>

\* sources = load_sources(config_path)
LoadSources ==
  /\ mpc = "start" /\ config.state = "ok"
  /\ sources' = config.rows
  /\ mpc' = "loaded"
  /\ UNCHANGED <<args, config, pos, errors, attempts, exit_code, mergeVars, pageVars>>

\* if args.source_id: filter, and return 1 when nothing is left
SelectSources ==
  /\ mpc = "loaded"
  /\ LET chosen == IF args.source_id # None
                   THEN SelectSourceId(sources, args.source_id[1]) ELSE sources
     IN IF args.source_id # None /\ chosen = <<>>
        THEN /\ mpc' = "config_error" /\ exit_code' = Some(1)
             /\ sources' = chosen
        ELSE /\ mpc' = "selected" /\ exit_code' = exit_code
             /\ sources' = chosen
  /\ UNCHANGED <<args, config, pos, errors, attempts, mergeVars, pageVars>>

\* the two --html-file checks; errors = 0
CheckHtmlOverride ==
  /\ mpc = "selected"
  /\ IF args.html_file = "missing"
     THEN mpc' = "config_error" /\ exit_code' = Some(1)
     ELSE IF args.html_file = "exists" /\ Len(sources) > 1
     THEN mpc' = "config_error" /\ exit_code' = Some(1)
     ELSE mpc' = "loop" /\ exit_code' = exit_code
  /\ errors' = 0
  /\ UNCHANGED <<args, config, sources, pos, attempts, mergeVars, pageVars>>

\* process_source(source, ...) returns
ProcessSourceReturns ==
  /\ mpc = "loop" /\ pos < Len(sources)
  /\ attempts' = Append(attempts, [source_id |-> sources[pos + 1], raised |-> FALSE])
  /\ pos' = pos + 1
  /\ UNCHANGED <<mpc, args, config, sources, errors, exit_code, mergeVars, pageVars>>

ProcessSourceRaisesUncaught ==
  /\ mpc = "loop" /\ pos < Len(sources)
  /\ attempts' = Append(attempts, [source_id |-> sources[pos + 1], raised |-> TRUE])
  /\ errors' = errors + 1
  /\ mpc' = "returned" /\ exit_code' = Some(1)
  /\ UNCHANGED <<pos, args, config, sources, mergeVars, pageVars>>

\* process_source(source, ...) raises an Exception: errors += 1, and the loop
\* goes on
ProcessSourceRaises ==
  /\ mpc = "loop" /\ pos < Len(sources)
  /\ attempts' = Append(attempts, [source_id |-> sources[pos + 1], raised |-> TRUE])
  /\ errors' = errors + 1
  /\ pos' = pos + 1
  /\ UNCHANGED <<mpc, args, config, sources, exit_code, mergeVars, pageVars>>

\* return 1 if errors else 0
Return ==
  /\ mpc = "loop" /\ pos = Len(sources)
  /\ exit_code' = Some(IF errors # 0 THEN 1 ELSE 0)
  /\ mpc' = "returned"
  /\ UNCHANGED <<args, config, sources, pos, errors, attempts, mergeVars, pageVars>>

Next ==
  \/ ConfigNotFound \/ LoadFails \/ LoadSources \/ SelectSources
  \/ CheckHtmlOverride \/ ProcessSourceReturns \/ ProcessSourceRaises \/ Return

Spec == Init /\ [][Next]_vars

\* --------------------------------------------------------- process_source

LISTING == SITE \o <<"/","b","l","o","g">>
PATH_INTRO == <<"/","p","o","s","t","s","/","i","n","t","r","o">>
PATH_BLOG_A == <<"/","b","l","o","g","/","a">>
PATH_ABOUT == <<"/","a","b","o","u","t">>

\* max_items when the configuration row gives none
DefaultMaxItems == 30

FeedSource(include, exclude, selectors, use_json_ld, n) ==
  [url |-> LISTING, include_url_patterns |-> include, exclude_url_patterns |-> exclude,
   link_scope_selectors |-> selectors, use_json_ld |-> use_json_ld, max_items |-> n]

SourceDefault == FeedSource(<<>>, <<>>, <<>>, TRUE, DefaultMaxItems)
\* include_url_patterns = ["^/blog/"]
SourceIncludeBlogPath == FeedSource(<<<<"^","/","b","l","o","g","/">>>>, <<>>, <<>>, TRUE, DefaultMaxItems)
\* include_url_patterns = ["blog"], which matches the listing URL too;
\* exclude_url_patterns = ["about"]
SourceIncludeBlog == FeedSource(<<<<"b","l","o","g">>>>, <<<<"a","b","o","u","t">>>>, <<>>, TRUE, DefaultMaxItems)
\* use_json_ld = false, max_items = 2
SourceLinksOnly == FeedSource(<<>>, <<>>, <<>>, FALSE, 2)
\* link_scope_selectors = ["main"]
SourceScoped == FeedSource(<<>>, <<>>, <<"main">>, TRUE, DefaultMaxItems)

Sources ==
  {SourceDefault, SourceIncludeBlogPath, SourceIncludeBlog, SourceLinksOnly, SourceScoped}

Script(text) == [tag |-> "script", text |-> text]
JsonText(payload) == [kind |-> "json", payload |-> payload]

\* {"@type": "Article", "headline": "Intro", "url": "/posts/intro",
\*  "datePublished": "2024-01-05T10:00:00Z"}
ScriptIntro ==
  Script(JsonText(JDict(<< <<"@type", JStr(<<"A","r","t","i","c","l","e">>)>>,
                           <<"headline", JStr(<<"I","n","t","r","o">>)>>,
                           <<"url", JStr(PATH_INTRO)>>,
                           <<"datePublished", JStr(DATE_ISO_Z)>> >>)))

\* a script element whose text is not JSON
ScriptMalformed == Script([kind |-> "malformed"])

\* a script element with no text
ScriptBlank == Script([kind |-> "blank"])

\* {"@type": "BlogPosting", "headline": 42, "url": "/blog/a"}
ScriptHeadlineNumber ==
  Script(JsonText(JDict(<< <<"@type", JStr(<<"B","l","o","g","P","o","s","t","i","n","g">>)>>,
                           <<"headline", JNum(42)>>,
                           <<"url", JStr(PATH_BLOG_A)>> >>)))

\* {"@graph": [
\*    {"@type": ["Thing", "NewsArticle"], "name": " Post  B ",
\*     "mainEntityOfPage": {"@id": "https://e.c/blog/"}, "dateModified": "soon"},
\*    {"@type": "TechArticle", "url": {"@id": "/blog/a"}, "description": "A b",
\*     "dateCreated": "2024-02-01"}]}
ScriptGraph ==
  Script(JsonText(JDict(<< <<"@graph", JList(<<
    JDict(<< <<"@type", JList(<<JStr(<<"T","h","i","n","g">>), JStr(<<"N","e","w","s","A","r","t","i","c","l","e">>)>>)>>,
             <<"name", JStr(<<" ","P","o","s","t"," "," ","B"," ">>)>>,
             <<"mainEntityOfPage", JDict(<< <<"@id", JStr(LISTING \o <<"/">>)>> >>)>>,
             <<"dateModified", JStr(DATE_WORD)>> >>),
    JDict(<< <<"@type", JStr(<<"T","e","c","h","A","r","t","i","c","l","e">>)>>,
             <<"url", JDict(<< <<"@id", JStr(PATH_BLOG_A)>> >>)>>,
             <<"description", JStr(<<"A"," ","b">>)>>,
             <<"dateCreated", JStr(DATE_PLAIN)>> >>) >>)>> >>)))

Anchor(href, text, parent_text, times, within) ==
  [tag |-> "a", href |-> href, text |-> text, parent_text |-> parent_text,
   times |-> times, within |-> within]

\* <a href="/posts/intro">Read: Intro</a>, no time element near it
AnchorReadIntro ==
  Anchor(PATH_INTRO, <<"R","e","a","d",":"," ","I","n","t","r","o">>, <<"R","e","a","d",":"," ","I","n","t","r","o">>, <<None, None>>, {})

\* <main><p>Post A title <time datetime="2024-02-01">1 Feb</time>
\*   <a href="/blog/a">Post A title</a></p></main>
AnchorBlogA ==
  Anchor(PATH_BLOG_A, <<"P","o","s","t"," ","A"," ","t","i","t","l","e">>, <<"P","o","s","t"," ","A"," ","t","i","t","l","e"," ","1"," ","F","e","b">>,
         <<None, Some([datetime |-> JStr(DATE_PLAIN), text |-> <<"1"," ","F","e","b">>])>>, {"main"})

\* <a href="/about">About</a>
AnchorAbout ==
  Anchor(PATH_ABOUT, <<"A","b","o","u","t">>, <<"A","b","o","u","t">>, <<None, None, None>>, {})

\* <main><a href="https://e.c/blog/?page=2">Next page</a></main>: the listing
\* page itself
AnchorNextPage ==
  Anchor(LISTING \o <<"/","?","p","a","g","e","=","2">>, <<"N","e","x","t"," ","p","a","g","e">>, <<"N","e","x","t"," ","p","a","g","e">>, <<None, None>>, {"main"})

\* <a href=" ">Empty link</a>: urljoin gives the listing URL
AnchorBlankHref ==
  Anchor(<<" ">>, <<"E","m","p","t","y"," ","l","i","n","k">>, <<"E","m","p","t","y"," ","l","i","n","k">>, <<None, None>>, {})

\* <a href="#top">Top</a>
AnchorFragment ==
  Anchor(<<"#","t","o","p">>, <<"T","o","p">>, <<"T","o","p">>, <<None, None>>, {})

PageElements ==
  {ScriptIntro, ScriptMalformed, ScriptBlank, ScriptHeadlineNumber, ScriptGraph,
   AnchorReadIntro, AnchorBlogA, AnchorAbout, AnchorNextPage, AnchorBlankHref,
   AnchorFragment}

InitPage ==
  /\ MainIdle /\ MergeIdle
  /\ ppc = "start"
  /\ source \in Sources
  /\ page \in SeqsUpTo(PageElements, MaxPage)
  /\ extracted = <<>>
  /\ feed = None

\* if source.use_json_ld: extracted.extend(extract_items_from_json_ld(...));
\* an exception leaves process_source
ExtractJsonLd ==
  /\ ppc = "start" /\ source.use_json_ld
  /\ LET got == extract_items_from_json_ld(page, source)
     IN IF got.raised
        THEN ppc' = "raised" /\ extracted' = extracted
        ELSE ppc' = "json_ld_done" /\ extracted' = extracted \o got.value
  /\ UNCHANGED <<source, page, feed, mainVars, mergeVars>>

\* use_json_ld is off
SkipJsonLd ==
  /\ ppc = "start" /\ ~source.use_json_ld
  /\ ppc' = "json_ld_done"
  /\ UNCHANGED <<source, page, extracted, feed, mainVars, mergeVars>>

\* extracted.extend(extract_items_from_links(soup, source))
ExtractLinks ==
  /\ ppc = "json_ld_done"
  /\ extracted' = extracted \o extract_items_from_links(page, source)
  /\ ppc' = "extracted"
  /\ UNCHANGED <<source, page, feed, mainVars, mergeVars>>

\* items = dedupe_and_rank(extracted, source.max_items)
DedupeAndRank ==
  /\ ppc = "extracted"
  /\ feed' = Some(dedupe_and_rank(extracted, source.max_items))
  /\ ppc' = "ranked"
  /\ UNCHANGED <<source, page, extracted, mainVars, mergeVars>>

NextPage == ExtractJsonLd \/ SkipJsonLd \/ ExtractLinks \/ DedupeAndRank

SpecPage == InitPage /\ [][NextPage]_vars

\* ============================================================== claims

\* the index (from 0) of the first candidate of the input whose link is l
FirstIndexOf(l) ==
  (CHOOSE j \in 1..Len(input) :
     input[j].link = l /\ \A i \in 1..(j - 1) : input[i].link # l) - 1

\* the merged, fully sorted list of the items, not truncated
FullySorted == ItemsOf(heap, SortPairs(heap, merged))

\* ---- C3 ----
\* C3: in the list dedupe_and_rank returns, every item with a published value
\* comes before every item without one, and the timestamps of the dated items
\* never increase along the list, whatever max_items is.
C3_DatedFirstNewestFirst ==
  dpc = "done" =>
    \A i, j \in 1..Len(result[1]) :
      i < j =>
        /\ result[1][i].published = None => result[1][j].published = None
        /\ (result[1][i].published # None /\ result[1][j].published # None)
             => result[1][i].published[1] >= result[1][j].published[1]

\* a returned list of three, newest, older, undated, from an input that began
\* with the undated one
C3_Witness ==
  /\ dpc = "done" /\ Len(result[1]) = 3
  /\ input[1].published = None
  /\ result[1][1].published = Some(1)
  /\ result[1][2].published = Some(0)
  /\ result[1][3].published = None

\* ---- C4 ----
\* C4: for every integer max_items, dedupe_and_rank returns at most max_items
\* entries (an empty list is no more than any count), and what it returns is
\* the first entries of the fully sorted merged list.
C4_AtMostMaxItems ==
  dpc = "done" =>
    /\ result[1] # <<>> => Len(result[1]) <= max_items[1]
    /\ Len(result[1]) <= Len(FullySorted)
    /\ result[1] = SubSeq(FullySorted, 1, Len(result[1]))

\* ---- C5 ----
\* C5: dedupe_and_rank of the candidate list concatenated with itself returns
\* the records dedupe_and_rank of the list returns, field for field and in the
\* same order, for the same max_items; both when the second half holds copies
\* of the items and when it holds the same objects (Python's L + L).  Stated
\* where the call has merged and sorted the list, for every max_items its
\* slice can then be given.
C5_MergeIdempotent ==
  dpc = "sorted" =>
    LET n == Len(input)
        once == [heap |-> heap, pairs |-> result[1]]
        copies == MergedSorted(input \o input, [k \in 1..(2 * n) |-> k])
        same == MergedSorted(input, [k \in 1..(2 * n) |-> ((k - 1) % n) + 1])
    IN \A m \in MaxItemsValues :
         /\ Returned(copies, m) = Returned(once, m)
         /\ Returned(same, m) = Returned(once, m)

\* a list of two links whose merge filled a summary in and upgraded a
\* placeholder title
C5_Witness ==
  /\ dpc = "sorted" /\ Len(input) = 3 /\ Len(result[1]) = 2
  /\ input[1].title = slug_to_title(LinkA) /\ input[1].summary = None
  /\ heap[1].title = TitleBeta
  /\ input[3].link = LinkBC

\* ---- C9 ----
\* the summary a record has once the candidates input[1..n] are merged: that
\* of the first of them with its link whose summary is non-empty, else empty
SummaryAsClaimed(rec, l, n) ==
  LET full == {j \in 1..n : input[j].link = l /\ TruthyOptStr(input[j].summary)}
  IN IF full = {} THEN ~TruthyOptStr(rec.summary)
     ELSE rec.summary = input[CHOOSE j \in full : \A i \in full : j <= i].summary

PublishedAsClaimed(rec, l, n) ==
  LET full == {j \in 1..n : input[j].link = l /\ TruthyOptDate(input[j].published)}
  IN IF full = {} THEN ~TruthyOptDate(rec.published)
     ELSE rec.published = input[CHOOSE j \in full : \A i \in full : j <= i].published

\* no record's non-empty summary or non-null published changes in a step
FilledFieldsKept ==
  \A k \in 1..Len(merged) :
    /\ TruthyOptStr(heap[merged[k].ref].summary)
         => heap'[merged[k].ref].summary = heap[merged[k].ref].summary
    /\ TruthyOptDate(heap[merged[k].ref].published)
         => heap'[merged[k].ref].published = heap[merged[k].ref].published

\* C9: in the merge loop, once a link's record has a non-empty summary (a
\* non-null published) no later candidate changes it, and after any number of
\* candidates the record's summary (published) is that of the first candidate
\* with its link that has one, and is empty only if none has.
C9_FirstNonEmptyWins ==
  /\ [][FilledFieldsKept]_vars
  /\ [](\A k \in 1..Len(merged) :
          /\ SummaryAsClaimed(heap[merged[k].ref], merged[k].link, index)
          /\ PublishedAsClaimed(heap[merged[k].ref], merged[k].link, index))

\* three candidates of one link merged: the first has neither field, the
\* second fills both... the third, with another summary, changes nothing
C9_Witness ==
  /\ dpc = "loop" /\ index = 3 /\ Len(merged) = 1
  /\ input[1].summary = Some(<<>>)
  /\ input[2].summary = Some(SummaryS)
  /\ input[3].summary = Some(SummaryT)
  /\ heap[1].summary = Some(SummaryS)

\* ---- C10 ----
\* C10: in the returned list two undated records, and two dated records with
\* the same timestamp, stand in the order of the first occurrence of their
\* links in the candidate list (a record dated by a later duplicate keeps its
\* first index); and three undated candidates of distinct links with
\* max_items = 2 return the first two, in their order.
C10_TiesInDiscoveryOrder ==
  dpc = "done" =>
    /\ \A i, j \in 1..Len(result[1]) :
         (i < j /\ result[1][i].published = result[1][j].published)
           => FirstIndexOf(result[1][i].link) < FirstIndexOf(result[1][j].link)
    /\ ( /\ Len(input) = 3 /\ max_items = Some(2)
         /\ \A i \in 1..3 : input[i].published = None
         /\ \A i, j \in 1..3 : i # j => input[i].link # input[j].link )
         => /\ Len(result[1]) = 2
            /\ result[1][1].link = input[1].link
            /\ result[1][2].link = input[2].link

\* the first candidate is undated and is dated by its duplicate, the third
\* candidate; it is returned before the second, which has the same date
C10_Witness ==
  /\ dpc = "done" /\ Len(input) = 3 /\ Len(result[1]) = 2
  /\ input[1].published = None /\ input[2].published = Some(0)
  /\ input[3].published = Some(0) /\ input[3].link = input[1].link
  /\ result[1][1].link = input[1].link
  /\ result[1][2].link = input[2].link

\* ---- C6 ----
\* [a.source_id for a in attempts]
AttemptedIds == [k \in 1..Len(attempts) |-> attempts[k].source_id]

\* C6: once the configuration checks pass, main calls process_source on every
\* selected source in order whether or not earlier ones raised, counts each
\* raise, and returns 0 exactly when none raised and 1 when one did.
C6_EverySourceAttempted ==
  /\ mpc = "loop" =>
       /\ AttemptedIds = SubSeq(sources, 1, pos)
       /\ errors = Cardinality({k \in 1..Len(attempts) : attempts[k].raised})
       /\ exit_code = None
  /\ mpc = "returned" =>
       /\ AttemptedIds = sources
       /\ exit_code = Some(IF \E k \in 1..Len(attempts) : attempts[k].raised
                           THEN 1 ELSE 0)

\* main has returned 1 after the first of two sources raised and the second
\* was processed all the same
C6_Witness ==
  /\ mpc = "returned" /\ Len(sources) = 2 /\ Len(attempts) = 2
  /\ attempts[1].raised /\ ~attempts[2].raised
  /\ exit_code = Some(1)

\* [item.link for item in items]
LinksOf(items) == [k \in 1..Len(items) |-> items[k].link]

\* the page without its script elements whose text is not JSON
RECURSIVE WithoutMalformed(_)
WithoutMalformed(p) ==
  IF p = <<>> THEN <<>>
  ELSE (IF p[1].tag = "script" /\ p[1].text.kind = "malformed" THEN <<>> ELSE <<p[1]>>)
         \o WithoutMalformed(Tail(p))

\* ---- C1 ----
\* C1: for the page of one structured-data article (headline "Intro", url
\* "/posts/intro", datePublished 2024-01-05T10:00:00Z) and one plain anchor to
\* the same link with the text "Read: Intro" and no time element, the ranked
\* items are one item for that link, with the structured-data title "Intro"
\* and the structured-data date.
C1_StructuredTitleKept ==
  ( /\ ppc = "ranked" /\ source = SourceDefault
    /\ page \in {<<ScriptIntro, AnchorReadIntro>>, <<AnchorReadIntro, ScriptIntro>>} )
    => /\ LinksOf(feed[1]) = <<SITE \o PATH_INTRO>>
       /\ feed[1][1].title = ScriptIntro.text.payload.v[2][2].v
       /\ feed[1][1].published = Some(1704448800)

\* ---- C2 ----
\* C2: with include_url_patterns = ["^/blog/"] and no exclude pattern, a page
\* whose anchors point to /blog/a and /about gives the item of /blog/a and no
\* item of /about.
C2_IncludeKeepsBlogPath ==
  ( /\ ppc = "ranked" /\ source = SourceIncludeBlogPath
    /\ page = <<AnchorBlogA, AnchorAbout>> )
    => LinksOf(feed[1]) = <<SITE \o PATH_BLOG_A>>

\* ---- C7 ----
\* C7: extract_items_from_json_ld never raises, whatever the blocks of the
\* page hold; a block that is not JSON gives no item, and the items of the
\* other blocks are extracted as they are without it.
C7_JsonLdAbsorbsAnomalies ==
  /\ ppc # "raised"
  /\ (ppc = "json_ld_done" /\ source.use_json_ld)
       => extracted = extract_items_from_json_ld(WithoutMalformed(page), source).value

\* ---- C8 ----
\* C8: whatever the include and exclude patterns, no extracted candidate and
\* no ranked item has a link that same_url holds equal to the listing URL.
C8_NoItemForListingPage ==
  /\ \A k \in 1..Len(extracted) : norm(extracted[k].link) # norm(source.url)
  /\ feed # None => \A k \in 1..Len(feed[1]) : norm(feed[1][k].link) # norm(source.url)

\* the include pattern matches the listing URL; the page links to the listing
\* page from an anchor (with a query) and from a structured-data node (with a
\* trailing slash), and to an article, which is the one ranked item
C8_Witness ==
  /\ ppc = "ranked" /\ source = SourceIncludeBlog
  /\ page = <<ScriptGraph, AnchorNextPage, AnchorBlogA>>
  /\ re_search(source.include_url_patterns[1], source.url)
  /\ LinksOf(feed[1]) = <<SITE \o PATH_BLOG_A>>
====
